---- MODULE Spec2Model ----
(***************************************************************************)
(* Model of package wake (util.go): ListenForQuitSignal and                *)
(* WaitWithTimeout, together with the parts of their environment they act  *)
(* on: the context, the process-wide signal table of os/signal, the        *)
(* goroutine that runs the wait callable and the timer of time.After.      *)
(***************************************************************************)
EXTENDS Integers, Sequences, FiniteSets, TLC

(***************************************************************************)
(* Bounds of the model.                                                    *)
(***************************************************************************)
\* number of concurrent calls of ListenForQuitSignal
NumCalls == 2
\* longest signal list passed to ListenForQuitSignal
MaxSigLen == 1
\* largest timeout (in ticks) passed to WaitWithTimeout
MaxTimeout == 1

(***************************************************************************)
(* Errors.  An error value is the chain of messages that errors.Unwrap     *)
(* walks, outermost first; the nil error is the empty chain.               *)
(***************************************************************************)
Nil == << >>

ErrReceivedQuitSignal == << "received quit signal" >>

ErrWaitDeadlineExceeded == << "wait func didn't complete within timeout" >>

\* context.Canceled and context.DeadlineExceeded, the values of ctx.Err()
Canceled == << "context canceled" >>

DeadlineExceeded == << "context deadline exceeded" >>

CtxReasons == {Canceled, DeadlineExceeded}

\* err.Error()
ErrorText(err) == Head(err)

\* errors.Is(err, target): target is err or is reached by unwrapping err
ErrorsIs(err, target) ==
    /\ target # Nil
    /\ \E i \in 1..Len(err) : SubSeq(err, i, Len(err)) = target

(***************************************************************************)
(* Signals.                                                                *)
(***************************************************************************)
Signals == {"SIGINT", "SIGTERM", "SIGQUIT"}

NoSignal == "none"

\* os.Interrupt
Interrupt == "SIGINT"

\* Signal.String(), as the tests of the package read it
SignalString(s) ==
    CASE s = "SIGINT" -> "interrupt"
      [] s = "SIGTERM" -> "terminated"
      [] s = "SIGQUIT" -> "quit"

\* the signal lists a caller may pass
SigLists == UNION {[1..n -> Signals] : n \in 0..MaxSigLen}

Elems(list) == {list[i] : i \in 1..Len(list)}

\* util.go:45-47, the list the call listens for
\* (faulty variant: SIGQUIT is part of the default set)
DefaultedWithQuit(list) ==
    IF Len(list) = 0 THEN << Interrupt, "SIGTERM", "SIGQUIT" >> ELSE list

Defaulted(list) ==
    IF Len(list) = 0 THEN << Interrupt, "SIGTERM" >> ELSE list

\* fmt.Errorf("%s: %w", s, ErrReceivedQuitSignal)
\* (faulty variant: the sentinel is returned as it is, without the signal)
ErrorfBare(s) == ErrReceivedQuitSignal

Errorf(s) ==
    << SignalString(s) \o ": " \o ErrorText(ErrReceivedQuitSignal) >>
        \o ErrReceivedQuitSignal

\* capacity of the channel c of ListenForQuitSignal
ChanCap == 1

\* capacity of the channel rec of WaitWithTimeout
RecCap == 1

Calls == 1..NumCalls

VARIABLES
    ctxErr,     \* ctx.Err(): Nil until ctx is cancelled (Done closed)
    handlers,   \* os/signal table: channel of a call -> signals it gets
    lpc,        \* position of each call of ListenForQuitSignal
    c,          \* the buffered channel c of each call
    lret,       \* the value each call returns
    nNotify,    \* calls of signal.Notify made by each call
    nStop,      \* calls of signal.Stop made by each call
    firstGot,   \* the first signal that was put in the channel of each call
    wpc,        \* position of the call of WaitWithTimeout
    timeout,    \* its timeout parameter, in ticks
    rec,        \* the buffered channel rec
    gpc,        \* position of the goroutine func() { rec <- wait() }
    gval,       \* the value wait() returned to that goroutine
    timer,      \* state of the timer of time.After(timeout)
    remaining,  \* ticks until the pending timer fires
    wret,       \* the value WaitWithTimeout returns
    waitCalls,  \* invocations of the wait callable
    first,      \* which came first: the return of wait or the timer firing
    asMember,   \* the call runs as a member of the group whose Wait is wait
    availAtSelect   \* rec held the result of wait when the select began

lvars == << handlers, lpc, c, lret, nNotify, nStop, firstGot >>

wvars == << wpc, timeout, rec, gpc, gval, timer, remaining, wret, waitCalls,
            first, asMember, availAtSelect >>

vars == << ctxErr, lvars, wvars >>

\* <-ctx.Done() can proceed
Done == ctxErr # Nil

(***************************************************************************)
(* The context is cancelled by its owner, with one of the two reasons.     *)
(***************************************************************************)
Cancel(reason) ==
    /\ ctxErr = Nil
    /\ ctxErr' = reason
    /\ UNCHANGED << lvars, wvars >>

(***************************************************************************)
(* ListenForQuitSignal                                                     *)
(***************************************************************************)
\* util.go:44-51: default the list, make the channel, signal.Notify
\* (faulty variant: the call starts its select without signal.Notify)
LCallUnregistered(l, list) ==
    /\ lpc[l] = "idle"
    /\ c' = [c EXCEPT ![l] = << >>]
    /\ lpc' = [lpc EXCEPT ![l] = "select"]
    /\ UNCHANGED << ctxErr, handlers, lret, nNotify, nStop, firstGot, wvars >>

LCall(l, list) ==
    /\ lpc[l] = "idle"
    /\ c' = [c EXCEPT ![l] = << >>]
    /\ handlers' = [handlers EXCEPT ![l] = Elems(Defaulted(list))]
    /\ nNotify' = [nNotify EXCEPT ![l] = @ + 1]
    /\ lpc' = [lpc EXCEPT ![l] = "select"]
    /\ UNCHANGED << ctxErr, lret, nStop, firstGot, wvars >>

\* the channels os/signal sends signal s to
Subscribers(s) == {l \in Calls : s \in handlers[l]}

\* os/signal delivers s: a non-blocking send to every subscribed channel
\* (faulty variant: a full channel is emptied to make room for s)
DeliverOverwrite(s) ==
    /\ c' = [l \in Calls |-> IF l \in Subscribers(s) THEN << s >> ELSE c[l]]
    /\ firstGot' = [l \in Calls |->
               IF l \in Subscribers(s) /\ firstGot[l] = NoSignal
               THEN s ELSE firstGot[l]]
    /\ UNCHANGED << ctxErr, handlers, lpc, lret, nNotify, nStop, wvars >>

Deliver(s) ==
    /\ c' = [l \in Calls |->
               IF l \in Subscribers(s) /\ Len(c[l]) < ChanCap
               THEN Append(c[l], s) ELSE c[l]]
    /\ firstGot' = [l \in Calls |->
               IF l \in Subscribers(s) /\ Len(c[l]) < ChanCap
                    /\ firstGot[l] = NoSignal
               THEN s ELSE firstGot[l]]
    /\ UNCHANGED << ctxErr, handlers, lpc, lret, nNotify, nStop, wvars >>

\* util.go:54-55: case <-ctx.Done(): return ctx.Err()
\* (faulty variants: a quit-signal error, or ctx.Err() read as nil)
CtxBranchWrapped(l) == Errorf(Interrupt)

CtxBranchNil(l) == Nil

CtxBranch(l) == ctxErr

LSelectDone(l) ==
    /\ lpc[l] = "select"
    /\ Done
    /\ lret' = [lret EXCEPT ![l] = CtxBranch(l)]
    /\ lpc' = [lpc EXCEPT ![l] = "defer"]
    /\ UNCHANGED << ctxErr, handlers, c, nNotify, nStop, firstGot, wvars >>

\* util.go:56-57: case s := <-c: return fmt.Errorf(...)
\* (faulty variant: ctx.Done() is looked at first, c only when ctx is live)
LSelectSigUnlessDone(l) ==
    /\ lpc[l] = "select"
    /\ ~Done
    /\ Len(c[l]) > 0
    /\ lret' = [lret EXCEPT ![l] = Errorf(Head(c[l]))]
    /\ c' = [c EXCEPT ![l] = Tail(c[l])]
    /\ lpc' = [lpc EXCEPT ![l] = "defer"]
    /\ UNCHANGED << ctxErr, handlers, nNotify, nStop, firstGot, wvars >>

LSelectSig(l) ==
    /\ lpc[l] = "select"
    /\ Len(c[l]) > 0
    /\ lret' = [lret EXCEPT ![l] = Errorf(Head(c[l]))]
    /\ c' = [c EXCEPT ![l] = Tail(c[l])]
    /\ lpc' = [lpc EXCEPT ![l] = "defer"]
    /\ UNCHANGED << ctxErr, handlers, nNotify, nStop, firstGot, wvars >>

\* util.go:51: the deferred signal.Stop(c), then the call returns
\* (faulty variants: the call returns without signal.Stop; the call resets
\* the whole signal table)
LStopAll(l) ==
    /\ lpc[l] = "defer"
    /\ handlers' = [k \in Calls |-> {}]
    /\ nStop' = [nStop EXCEPT ![l] = @ + 1]
    /\ lpc' = [lpc EXCEPT ![l] = "returned"]
    /\ UNCHANGED << ctxErr, c, lret, nNotify, firstGot, wvars >>

LStopSkipped(l) ==
    /\ lpc[l] = "defer"
    /\ lpc' = [lpc EXCEPT ![l] = "returned"]
    /\ UNCHANGED << ctxErr, handlers, c, lret, nNotify, nStop, firstGot,
                    wvars >>

LStop(l) ==
    /\ lpc[l] = "defer"
    /\ handlers' = [handlers EXCEPT ![l] = {}]
    /\ nStop' = [nStop EXCEPT ![l] = @ + 1]
    /\ lpc' = [lpc EXCEPT ![l] = "returned"]
    /\ UNCHANGED << ctxErr, c, lret, nNotify, firstGot, wvars >>

(***************************************************************************)
(* WaitWithTimeout                                                         *)
(***************************************************************************)
\* the timeouts a caller may pass; a negative duration is legal in Go
Timeouts == -1..MaxTimeout

\* the values the wait callable may return: nil, the error of a group
\* member that stopped with ctx.Err(), or an error of its own
ErrFromWait == << "error from wait" >>

WaitResults == {Nil, Canceled, ErrFromWait}

\* util.go:102: the call is made and blocks in <-ctx.Done()
\* (faulty variant: the timer is started when the call is made)
WCallStartsTimer(d, m) ==
    /\ wpc = "idle"
    /\ wpc' = "L103"
    /\ timeout' = d
    /\ asMember' = m
    /\ timer' = "pending"
    /\ remaining' = IF d > 0 THEN d ELSE 0
    /\ UNCHANGED << ctxErr, lvars, rec, gpc, gval, wret, waitCalls, first,
                    availAtSelect >>

WCall(d, m) ==
    /\ wpc = "idle"
    /\ wpc' = "L103"
    /\ timeout' = d
    /\ asMember' = m
    /\ UNCHANGED << ctxErr, lvars, rec, gpc, gval, timer, remaining, wret,
                    waitCalls, first, availAtSelect >>

\* util.go:103: <-ctx.Done() proceeds
\* (faulty variant: the call does not wait for Done)
WDoneEarly ==
    /\ wpc = "L103"
    /\ wpc' = "L105"
    /\ UNCHANGED << ctxErr, lvars, timeout, rec, gpc, gval, timer, remaining,
                    wret, waitCalls, first, asMember, availAtSelect >>

WDone ==
    /\ wpc = "L103"
    /\ Done
    /\ wpc' = "L105"
    /\ UNCHANGED << ctxErr, lvars, timeout, rec, gpc, gval, timer, remaining,
                    wret, waitCalls, first, asMember, availAtSelect >>

\* util.go:105-107: make rec, start the goroutine
WGo ==
    /\ wpc = "L105"
    /\ rec' = << >>
    /\ gpc' = "spawned"
    /\ wpc' = "L109"
    /\ UNCHANGED << ctxErr, lvars, timeout, gval, timer, remaining, wret,
                    waitCalls, first, asMember, availAtSelect >>

\* time.After(d): a timer that fires after d, at once when d <= 0
After(d) == IF d > 0 THEN d ELSE 0

\* util.go:109-112: the select evaluates time.After(timeout) on entry
\* (faulty variant: wait is called synchronously, the select starts after it)
WAfterSync ==
    /\ wpc = "L109"
    /\ gpc = "done"
    /\ timer' = "pending"
    /\ remaining' = After(timeout)
    /\ availAtSelect' = (Len(rec) > 0)
    /\ wpc' = "select"
    /\ UNCHANGED << ctxErr, lvars, timeout, rec, gpc, gval, wret, waitCalls,
                    first, asMember >>

WAfter ==
    /\ wpc = "L109"
    /\ timer' = "pending"
    /\ remaining' = After(timeout)
    /\ availAtSelect' = (Len(rec) > 0)
    /\ wpc' = "select"
    /\ UNCHANGED << ctxErr, lvars, timeout, rec, gpc, gval, wret, waitCalls,
                    first, asMember >>

\* util.go:110-111: case err := <-rec: return err
\* (faulty variant: the error of wait is dropped)
RecBranchDropped(err) == Nil

RecBranch(err) == err

WSelectRec ==
    /\ wpc = "select"
    /\ Len(rec) > 0
    /\ wret' = RecBranch(Head(rec))
    /\ rec' = Tail(rec)
    /\ wpc' = "returned"
    /\ UNCHANGED << ctxErr, lvars, timeout, gpc, gval, timer, remaining,
                    waitCalls, first, asMember, availAtSelect >>

\* util.go:112-113: case <-time.After(timeout): return the deadline error
\* (faulty variants: ctx.Err() is returned; nil is returned; a default case
\* stands for the timer case)
TimerBranchCtx == ctxErr

TimerBranchNil == Nil

TimerBranch == ErrWaitDeadlineExceeded

WSelectTimerDefault ==
    /\ wpc = "select"
    /\ Len(rec) = 0
    /\ wret' = TimerBranch
    /\ wpc' = "returned"
    /\ UNCHANGED << ctxErr, lvars, timeout, rec, gpc, gval, timer, remaining,
                    waitCalls, first, asMember, availAtSelect >>

WSelectTimer ==
    /\ wpc = "select"
    /\ timer = "fired"
    /\ timer' = "received"
    /\ wret' = TimerBranch
    /\ wpc' = "returned"
    /\ UNCHANGED << ctxErr, lvars, timeout, rec, gpc, gval, remaining,
                    waitCalls, first, asMember, availAtSelect >>

\* util.go:107: the goroutine starts running and invokes wait
GoStart ==
    /\ gpc = "spawned"
    /\ gpc' = "inWait"
    /\ waitCalls' = waitCalls + 1
    /\ UNCHANGED << ctxErr, lvars, wpc, timeout, rec, gval, timer, remaining,
                    wret, first, asMember, availAtSelect >>

\* util.go:107: wait returns err to the goroutine; the Wait of a group
\* returns when every member has returned, the call itself if it is one
\* (faulty variant: wait is called again when it returned an error)
WaitReturnRetry(err) ==
    /\ gpc = "inWait"
    /\ asMember => wpc = "returned"
    /\ gval' = err
    /\ gpc' = IF err = Nil THEN "send" ELSE "spawned"
    /\ first' = IF first = "none" THEN "wait" ELSE first
    /\ UNCHANGED << ctxErr, lvars, wpc, timeout, rec, timer, remaining, wret,
                    waitCalls, asMember, availAtSelect >>

WaitReturn(err) ==
    /\ gpc = "inWait"
    /\ asMember => wpc = "returned"
    /\ gval' = err
    /\ gpc' = "send"
    /\ first' = IF first = "none" THEN "wait" ELSE first
    /\ UNCHANGED << ctxErr, lvars, wpc, timeout, rec, timer, remaining, wret,
                    waitCalls, asMember, availAtSelect >>

\* util.go:107: rec <- err, then the goroutine ends
\* (faulty variant: rec is unbuffered, the send needs the call to be
\* receiving in its select)
GoSendUnbuffered ==
    /\ gpc = "send"
    /\ wpc = "select"
    /\ Len(rec) < RecCap
    /\ rec' = Append(rec, gval)
    /\ gpc' = "done"
    /\ UNCHANGED << ctxErr, lvars, wpc, timeout, gval, timer, remaining,
                    wret, waitCalls, first, asMember, availAtSelect >>

GoSend ==
    /\ gpc = "send"
    /\ Len(rec) < RecCap
    /\ rec' = Append(rec, gval)
    /\ gpc' = "done"
    /\ UNCHANGED << ctxErr, lvars, wpc, timeout, gval, timer, remaining,
                    wret, waitCalls, first, asMember, availAtSelect >>

\* time passes for the pending timer
Tick ==
    /\ timer = "pending"
    /\ remaining > 0
    /\ remaining' = remaining - 1
    /\ UNCHANGED << ctxErr, lvars, wpc, timeout, rec, gpc, gval, timer, wret,
                    waitCalls, first, asMember, availAtSelect >>

\* the timer expires: the runtime sends on the channel of time.After
TimerFire ==
    /\ timer = "pending"
    /\ remaining = 0
    /\ timer' = "fired"
    /\ first' = IF first = "none" THEN "timer" ELSE first
    /\ UNCHANGED << ctxErr, lvars, wpc, timeout, rec, gpc, gval, remaining,
                    wret, waitCalls, asMember, availAtSelect >>

(***************************************************************************)
(* Specifications                                                          *)
(***************************************************************************)
Init ==
    /\ ctxErr = Nil
    /\ handlers = [l \in Calls |-> {}]
    /\ lpc = [l \in Calls |-> "idle"]
    /\ c = [l \in Calls |-> << >>]
    /\ lret = [l \in Calls |-> Nil]
    /\ nNotify = [l \in Calls |-> 0]
    /\ nStop = [l \in Calls |-> 0]
    /\ firstGot = [l \in Calls |-> NoSignal]
    /\ wpc = "idle"
    /\ timeout = 0
    /\ rec = << >>
    /\ gpc = "none"
    /\ gval = Nil
    /\ timer = "none"
    /\ remaining = 0
    /\ wret = Nil
    /\ waitCalls = 0
    /\ first = "none"
    /\ asMember = FALSE
    /\ availAtSelect = FALSE

\* the steps of the calls of ListenForQuitSignal already made
ListenSteps ==
    \/ \E s \in Signals : Deliver(s)
    \/ \E l \in Calls : LSelectDone(l)
    \/ \E l \in Calls : LSelectSig(l)
    \/ \E l \in Calls : LStop(l)

\* concurrent calls of ListenForQuitSignal on one context
NextListen ==
    \/ \E reason \in CtxReasons : Cancel(reason)
    \/ \E l \in Calls, list \in SigLists : LCall(l, list)
    \/ ListenSteps

SpecListen == Init /\ [][NextListen]_vars

\* two concurrent calls of ListenForQuitSignal on one context
NextListenPair ==
    \/ \E reason \in CtxReasons : Cancel(reason)
    \/ \E l \in Calls \cap {1, 2}, list \in SigLists : LCall(l, list)
    \/ ListenSteps

\* scheduling: a call whose select can proceed proceeds, and its deferred
\* signal.Stop runs
FairSpecListen ==
    /\ Init /\ [][NextListenPair]_vars
    /\ \A l \in Calls : WF_vars(LSelectSig(l))
    /\ \A l \in Calls : WF_vars(LSelectDone(l))
    /\ \A l \in Calls : WF_vars(LStop(l))

\* one call of WaitWithTimeout next to one call of ListenForQuitSignal
Next ==
    \/ \E reason \in CtxReasons : Cancel(reason)
    \/ \E list \in SigLists : LCall(1, list)
    \/ ListenSteps
    \/ \E d \in Timeouts, m \in BOOLEAN : WCall(d, m)
    \/ WDone
    \/ WGo
    \/ WAfter
    \/ WSelectRec
    \/ WSelectTimer
    \/ GoStart
    \/ \E err \in WaitResults : WaitReturn(err)
    \/ GoSend
    \/ Tick
    \/ TimerFire

Spec == Init /\ [][Next]_vars

\* scheduling: the goroutine of the call and the timer run; nothing makes the
\* wait callable start or return
FairSpec ==
    /\ Spec
    /\ WF_vars(WDone)
    /\ WF_vars(WGo)
    /\ WF_vars(WAfter)
    /\ WF_vars(WSelectTimer)
    /\ WF_vars(Tick)
    /\ WF_vars(TimerFire)

\* scheduling as in FairSpec, and the goroutine of the call runs: it calls
\* wait and, when wait has returned, sends the result
FairSpecGo ==
    /\ FairSpec
    /\ WF_vars(GoStart)
    /\ WF_vars(GoSend)

TypeOK ==
    /\ ctxErr \in {Nil} \cup CtxReasons
    /\ \A l \in Calls : Len(c[l]) <= ChanCap
    /\ Len(rec) <= RecCap

(***************************************************************************)
(* ListenForQuitSignal: properties                                         *)
(***************************************************************************)
\* the text of the error the tests expect for signal s
\* (interrupt|terminated|quit): received quit signal
QuitText(s) ==
    CASE s = "SIGINT" -> "interrupt: received quit signal"
      [] s = "SIGTERM" -> "terminated: received quit signal"
      [] s = "SIGQUIT" -> "quit: received quit signal"

\* C1: a call that returns after ctx was cancelled, and into whose channel
\* no signal was put before it returned, returns ctx.Err() itself and not an
\* error that matches ErrReceivedQuitSignal.
C1_ContextPrecedence ==
    \A l \in Calls :
        (lpc[l] = "returned" /\ Done /\ firstGot[l] = NoSignal) =>
            /\ lret[l] = ctxErr
            /\ lret[l] \in CtxReasons
            /\ ~ErrorsIs(lret[l], ErrReceivedQuitSignal)

C1_Witness ==
    \E l \in Calls :
        /\ lpc[l] = "returned"
        /\ firstGot[l] = NoSignal
        /\ lret[l] = DeadlineExceeded

\* C2: a call that returns while ctx is not cancelled returns an error that
\* wraps ErrReceivedQuitSignal and names the signal of its set that was put
\* in its channel.
C2_SignalPrecedence ==
    [][\A l \in Calls :
        (lpc[l] = "defer" /\ lpc'[l] = "returned" /\ ctxErr' = Nil) =>
            /\ firstGot[l] \in handlers[l]
            /\ ErrorsIs(lret'[l], ErrReceivedQuitSignal)
            /\ lret'[l] # ErrReceivedQuitSignal
            /\ ErrorText(lret'[l]) = QuitText(firstGot[l])]_vars

C2_Witness ==
    \E l \in Calls :
        /\ lpc[l] = "returned"
        /\ ctxErr = Nil
        /\ firstGot[l] = "SIGQUIT"
        /\ ErrorText(lret[l]) = "quit: received quit signal"

\* C3: a call made with an empty list subscribes to {os.Interrupt, SIGTERM}
\* and a call made with a non-empty list to the signals of that list; only a
\* signal of the set of a call is ever put in its channel, and a call that
\* stops listening while ctx is not cancelled has taken a signal of its set
\* from its channel.
C3_SubscribedSet ==
    [][\A l \in Calls :
        /\ (lpc[l] = "idle" /\ lpc'[l] # "idle") =>
            \A list \in SigLists :
                LCall(l, list) =>
                    handlers'[l] = IF Len(list) = 0
                                   THEN {"SIGINT", "SIGTERM"}
                                   ELSE Elems(list)
        /\ Len(c'[l]) > Len(c[l]) =>
            c'[l][Len(c'[l])] \in handlers[l]
        /\ (lpc[l] = "select" /\ lpc'[l] # "select" /\ ~Done) =>
            (Len(c[l]) > 0 /\ Head(c[l]) \in handlers[l])]_vars

\* a call listens for the default set with an empty channel although SIGQUIT
\* was delivered to the process (another call captured it)
C3_Witness ==
    \E l, k \in Calls :
        /\ lpc[l] = "select"
        /\ handlers[l] = {"SIGINT", "SIGTERM"}
        /\ c[l] = << >>
        /\ firstGot[l] = NoSignal
        /\ firstGot[k] = "SIGQUIT"

\* C4: a call subscribes once and unsubscribes once: while it listens it has
\* made one signal.Notify and no signal.Stop, when it has returned it has
\* made one of each and its channel is out of the signal table, and from then
\* on no delivery puts anything in its channel.
C4_Unregistration ==
    [][\A l \in Calls :
        /\ lpc'[l] \in {"select", "defer"} =>
            (nNotify'[l] = 1 /\ nStop'[l] = 0 /\ handlers'[l] # {})
        /\ lpc'[l] = "returned" =>
            (nNotify'[l] = 1 /\ nStop'[l] = 1 /\ handlers'[l] = {})
        /\ lpc[l] = "returned" =>
            /\ c'[l] = c[l]
            /\ firstGot'[l] = firstGot[l]
            /\ lret'[l] = lret[l]]_vars

C4_Witness ==
    \E l \in Calls :
        /\ lpc[l] = "returned"
        /\ handlers[l] = {}
        /\ lret[l] \in CtxReasons
        /\ firstGot[l] = NoSignal
        /\ c[l] = << >>
        /\ \E k \in Calls : firstGot[k] \in {"SIGINT", "SIGTERM"}

\* the signal a step has put in the channel of call l
Put(l) == c'[l][Len(c'[l])]

\* C11 as stated: every delivery of a signal a call is subscribed to puts
\* that signal in the channel of the call.
C11_Original ==
    [][\A l, k \in Calls :
        (Len(c'[k]) > Len(c[k]) /\ Put(k) \in handlers[l]) =>
            c'[l] = Append(c[l], Put(k))]_vars

\* C11 amended: a call enters its select registered and with its channel
\* made; a delivery of a signal of its set puts the signal in its channel
\* when the channel is empty and is dropped when the channel is full; and a
\* call that listens with a signal in its channel returns.
C11_NoSignalLost ==
    /\ [][\A l \in Calls :
            /\ (lpc[l] = "idle" /\ lpc'[l] # "idle") =>
                (lpc'[l] = "select" /\ handlers'[l] # {} /\ c'[l] = << >>)
            /\ \A k \in Calls :
                (Len(c'[k]) > Len(c[k]) /\ Put(k) \in handlers[l]) =>
                    c'[l] = IF Len(c[l]) = 0 THEN << Put(k) >> ELSE c[l]]_vars
    /\ \A l \in Calls :
            (lpc[l] = "select" /\ Len(c[l]) > 0) ~> (lpc[l] = "returned")

\* a signal was captured, ctx was cancelled too, and the call returned
\* ctx.Err() with the signal left in its channel
C11_Witness ==
    \E l \in Calls :
        /\ lpc[l] = "returned"
        /\ lret[l] \in CtxReasons
        /\ firstGot[l] # NoSignal
        /\ c[l] = << firstGot[l] >>

\* C16: when ctx.Done has fired and a signal is in the channel of a call in
\* its select, both cases of the select can be taken, and the call gets one
\* result: ctx.Err() or the quit-signal error, never both.
C16_NoPriority ==
    \A l \in Calls :
        /\ (lpc[l] = "select" /\ Done /\ Len(c[l]) > 0) =>
            (ENABLED LSelectDone(l) /\ ENABLED LSelectSig(l))
        /\ lpc[l] \in {"defer", "returned"} =>
            (lret[l] \in CtxReasons) # ErrorsIs(lret[l], ErrReceivedQuitSignal)

C16_Witness ==
    \E l \in Calls :
        /\ lpc[l] = "select"
        /\ Done
        /\ Len(c[l]) > 0

C19_FirstSignalKept ==
    [][\A l \in Calls :
        /\ Len(c'[l]) <= 1
        /\ (Len(c[l]) = 1 /\ lpc'[l] = lpc[l]) => c'[l] = c[l]
        /\ (lpc'[l] \in {"defer", "returned"}
                /\ ErrorsIs(lret'[l], ErrReceivedQuitSignal)) =>
            /\ ErrorText(lret'[l]) = QuitText(firstGot'[l])
            /\ lret'[l] \notin CtxReasons]_vars

\* two calls listen for the default set: one took SIGINT and then got
\* SIGTERM in its channel, the other still holds SIGINT
C19_Witness ==
    \E l, k \in Calls :
        /\ lpc[l] = "select"
        /\ handlers[l] = {"SIGINT", "SIGTERM"}
        /\ c[l] = << "SIGINT" >>
        /\ lpc[k] = "defer"
        /\ firstGot[k] = "SIGINT"
        /\ c[k] = << "SIGTERM" >>

(***************************************************************************)
(* WaitWithTimeout: properties                                             *)
(***************************************************************************)
\* C5: while ctx is not cancelled the wait callable has not been invoked, no
\* goroutine and no timer has been started, and the call has not returned.
C5_BlocksUntilCancelled ==
    ~Done =>
        /\ waitCalls = 0
        /\ gpc = "none"
        /\ timer = "none"
        /\ wpc \in {"idle", "L103"}

C5_Witness ==
    /\ wpc = "L103"
    /\ ~Done
    /\ waitCalls = 0

C8_Original ==
    wpc = "returned" =>
        (gpc \in {"none", "done"} /\ timer # "pending")

\* C8 amended: once WaitWithTimeout has returned the result of wait, the
\* goroutine it started has ended; once it has returned
\* ErrWaitDeadlineExceeded, its timer has fired and is not pending.
C8_ReleasedOnReturn ==
    wpc = "returned" =>
        \/ (wret = ErrWaitDeadlineExceeded /\ timer = "received")
        \/ (wret = gval /\ gpc = "done" /\ Len(rec) = 0
              /\ timer \in {"pending", "fired"})

C8_Witness ==
    /\ wpc = "returned"
    /\ gpc = "done"
    /\ timer = "pending"
    /\ remaining > 0

\* C9: once ctx is cancelled, a call of WaitWithTimeout that was made
\* returns, whether or not the wait callable ever returns.
C9_EventuallyReturns ==
    (wpc # "idle" /\ Done) ~> (wpc = "returned")

C9_Witness ==
    /\ wpc = "returned"
    /\ gpc = "inWait"
    /\ wret = ErrWaitDeadlineExceeded

\* C10: ListenForQuitSignal returns a non-nil error that is ctx.Err() or
\* wraps ErrReceivedQuitSignal; WaitWithTimeout returns
\* ErrWaitDeadlineExceeded or the value of the one invocation of wait.
C10_ReturnValues ==
    /\ \A l \in Calls :
        lpc[l] \in {"defer", "returned"} =>
            /\ lret[l] # Nil
            /\ \/ (lret[l] = ctxErr /\ lret[l] \in CtxReasons)
               \/ ErrorsIs(lret[l], ErrReceivedQuitSignal)
    /\ wpc = "returned" =>
            \/ wret = ErrWaitDeadlineExceeded
            \/ (waitCalls = 1 /\ gpc = "done" /\ wret = gval
                  /\ wret \in WaitResults)

C10_Witness ==
    /\ lpc[1] = "returned"
    /\ lret[1] = Canceled
    /\ wpc = "returned"
    /\ wret = Canceled

\* C12: the call starts one goroutine when it has passed ctx.Done, that
\* goroutine invokes wait once and never again, whatever wait returns and
\* whether or not the timer fired, and it does invoke it; the call may have
\* returned ErrWaitDeadlineExceeded before.
C12_WaitInvokedOnce ==
    /\ [](/\ waitCalls <= 1
          /\ (gpc = "none") = (wpc \in {"idle", "L103", "L105"})
          /\ (waitCalls = 1) = (gpc \in {"inWait", "send", "done"}))
    /\ [][/\ waitCalls' >= waitCalls
          /\ gpc \in {"inWait", "send", "done"} => gpc' # "spawned"]_vars
    /\ (gpc = "spawned") ~> (waitCalls = 1)

C12_Witness ==
    /\ wpc = "returned"
    /\ wret = ErrWaitDeadlineExceeded
    /\ gpc = "done"
    /\ gval = Canceled
    /\ waitCalls = 1

\* C13: the return of ErrWaitDeadlineExceeded leaves the goroutine that runs
\* wait as it is; when wait has returned, the send on rec can always proceed
\* and the goroutine ends; the result stays in rec and the value the call
\* returned does not change.
C13_AbandonedWait ==
    /\ [](gpc = "send" => (Len(rec) < RecCap /\ ENABLED GoSend))
    /\ [][/\ (wpc = "select" /\ wpc' = "returned" /\ timer' = "received") =>
                (gpc' = gpc /\ gval' = gval /\ rec' = rec)
          /\ (wpc = "returned" /\ timer = "received") =>
                /\ wret' = wret
                /\ wret = ErrWaitDeadlineExceeded
                /\ Len(rec) > 0 => rec' = rec]_vars
    /\ (wpc = "returned" /\ gpc = "send") ~> (gpc = "done" /\ rec = << gval >>)

C13_Witness ==
    /\ wpc = "returned"
    /\ wret = ErrWaitDeadlineExceeded
    /\ timer = "received"
    /\ gpc = "done"
    /\ rec = << Canceled >>

\* C14: the timer is started once, in the select, after ctx.Done has fired
\* and the goroutine was started, with the whole timeout to run; it is never
\* started again or prolonged, and it fires when its time has run out.
C14_TimerFromLaunch ==
    [][/\ (timer = "none" /\ timer' # "none") =>
            /\ Done
            /\ wpc = "L109"
            /\ gpc # "none"
            /\ timer' = "pending"
            /\ remaining' = IF timeout > 0 THEN timeout ELSE 0
       /\ timer # "none" =>
            /\ timer' # "none"
            /\ remaining' <= remaining
            /\ timer # "pending" => timer' # "pending"
       /\ (timer = "pending" /\ timer' = "fired") => remaining = 0]_vars

C14_Witness ==
    /\ wpc = "select"
    /\ timeout > 0
    /\ timer = "pending"
    /\ remaining = timeout
    /\ gpc = "inWait"

\* C15 as stated: a call that runs as a member of the group whose Wait it
\* is given never returns.
C15_Original ==
    asMember => wpc # "returned"

\* C15 amended: while such a call has not returned, the Wait of its group
\* has not returned either; the call returns when its timer has fired, with
\* ErrWaitDeadlineExceeded and never with the result of Wait, and it does
\* return once ctx is cancelled.
C15_MemberTimesOut ==
    /\ [](asMember =>
            /\ wpc # "returned" => gpc \notin {"send", "done"}
            /\ wpc = "returned" =>
                /\ wret = ErrWaitDeadlineExceeded
                /\ timer = "received"
                /\ first = "timer")
    /\ (asMember /\ wpc # "idle" /\ Done) ~> (wpc = "returned")

C15_Witness ==
    /\ asMember
    /\ wpc = "returned"
    /\ wret = ErrWaitDeadlineExceeded
    /\ gpc = "done"

\* C17: with a timeout of zero or less the call returns the result
\* of wait only when rec held it as the select began, and
\* ErrWaitDeadlineExceeded otherwise.
C17_CheckImmediately ==
    (timeout <= 0 /\ wpc = "returned" /\ ~availAtSelect) =>
        (timer = "received" /\ wret = ErrWaitDeadlineExceeded)

====
